---------------------------- MODULE Spec2Model ----------------------------
(***************************************************************************)
(* Keyword-spotting use case handler (ClassifyAudioHandler) of the         *)
(* ml-embedded-evaluation-kit: the sliding-window traversal of the stored  *)
(* audio clips, the pre-process / inference / post-process triple of each  *)
(* window and the aggregation of the per-window KwsResult records.         *)
(*                                                                         *)
(* Conventions                                                             *)
(*   - sample counts (window size, stride, clip length) are naturals;      *)
(*   - a score is the normalised value in percent (0.95 is 95);            *)
(*   - a time stamp is the rational num/den seconds, kept as a record, so  *)
(*     that float rounding is outside the model;                           *)
(*   - a feature frame is named by the clip and the sample offset it was   *)
(*     computed from, <<clip, offset>>.                                    *)
(***************************************************************************)
EXTENDS Integers, Sequences, FiniteSets, TLC

(***************************************************************************)
(* Bounds of the model and program constants.                              *)
(***************************************************************************)
MaxLen == 3
MaxWin == 2

NUMBER_OF_FILES == 2
ms_defaultSamplingFreq == 16000
ms_inputRowsIdx == 1
ms_inputColsIdx == 2

Max(a, b) == IF a > b THEN a ELSE b
Min(a, b) == IF a < b THEN a ELSE b

minTensorDims == Max(ms_inputRowsIdx, ms_inputColsIdx)

Labels == <<"yes", "no", "up">>

\* Normalised output scores the classification model can produce, per label.
OutputTensors == << <<95, 40, 30>>, <<30, 40, 30>>, <<40, 95, 95>> >>

Thresholds == {40, 90}
TopKs == {1, 2}
Seeds == {0, 1}

\* Input tensor dims: a null dims pointer, or dims->size.
DimsChoices ==
    {[isNull |-> TRUE, size |-> 0]} \cup
    {[isNull |-> FALSE, size |-> n] : n \in {minTensorDims - 1, minTensorDims}}

\* The Scenario of the specification: 16000-sample windows, no overlap.
ScenarioConfig ==
    [unit |-> ms_defaultSamplingFreq, windowSize |-> ms_defaultSamplingFreq,
     stride |-> ms_defaultSamplingFreq, frameLength |-> ms_defaultSamplingFreq,
     frameStride |-> ms_defaultSamplingFreq]

\* windowSize / stride / frameLength / frameStride combinations: both strides
\* positive, stride <= windowSize, frames inside the window, and the audio
\* stride a multiple of the frame stride (the rows of the overlap line up).
SmallConfigs ==
    { c \in [unit : {1}, windowSize : 1..MaxWin, stride : 1..MaxWin,
             frameLength : 1..MaxWin, frameStride : 1..MaxWin] :
        /\ c.stride <= c.windowSize
        /\ c.frameLength <= c.windowSize
        /\ c.frameStride <= c.frameLength
        /\ c.stride % c.frameStride = 0 }

Configs == SmallConfigs \cup {ScenarioConfig}

VARIABLES
    cfg,            \* windowSize, stride, frameLength, frameStride, scoreThreshold, topK
    clipSize,       \* get_audio_array_size(i), i in 0..NUMBER_OF_FILES-1
    model,          \* the Model object of the context
    ctxClipIndex,   \* ctx "clipIndex"
    ctxResults,     \* ctx "results"
    pc,             \* position of ClassifyAudioHandler
    ret,            \* its return value
    runAll,         \* its runAll argument
    initialClipIdx,
    currentIndex,
    audioDataSlider,
    inferenceWindow, \* sample offset of the window Next() returned
    finalResults,
    singleInfResult,
    preprocess,     \* the KWSPreProcess object (feature cache included)
    inputTensor,    \* the model's input tensor
    outputTensor,   \* the model's output tensor
    profiling,      \* the profiler is running
    \* history of the current call
    log,            \* stage events of the current clip
    stored,         \* clips whose results were set in ctx "results", in order
    presented,      \* arguments of PresentInferenceResult, in call order
    processed,      \* clips started, in order
    failedAt,       \* the check or stage that made the call return false
    resultsAtCall,  \* ctx "results" when the call was made
    clipIndexAtCall, \* the clipIndex argument of the call
    \* history across calls
    lastRun         \* per clip: the results last presented for it, if any

vars == <<cfg, clipSize, model, ctxClipIndex, ctxResults, pc, ret, runAll,
          initialClipIdx, currentIndex, audioDataSlider, inferenceWindow,
          finalResults, singleInfResult, preprocess, inputTensor, outputTensor, profiling,
          log, stored, presented, processed, failedAt, resultsAtCall,
          clipIndexAtCall, lastRun>>


Clips == 0..(NUMBER_OF_FILES - 1)


(***************************************************************************)
(* audio::SlidingWindow (WindowSlicer): a forward-only cursor over one     *)
(* clip. count is the number of Next() calls made so far.                  *)
(***************************************************************************)
SlidingWindow(dataSize, size, stride) ==
    [dataSize |-> dataSize, size |-> size, stride |-> stride, count |-> 0]

\* The next window exists when its end offset does not exceed the buffer.
HasNext(s) == s.count * s.stride + s.size <= s.dataSize

\* Next() advances the cursor.
Next_(s) == [s EXCEPT !.count = s.count + 1]

\* Ordinal (0-based) of the window Next() returned last.
Index(s) == s.count - 1

\* Sample offset of the window Next() returned last.
WindowOffset(s) == Index(s) * s.stride

\* Number of windows of a whole traversal, and the advances available.
NumWindows(dataSize, size, stride) ==
    IF dataSize < size THEN 0 ELSE ((dataSize - size) \div stride) + 1

TotalStrides(s) == NumWindows(s.dataSize, s.size, s.stride) - 1

(***************************************************************************)
(* KWSPreProcess: FeatureCache and FeatureAssembler.                       *)
(***************************************************************************)
\* Feature rows (time steps) of n samples.
TimeSteps(n) ==
    IF n < cfg.frameLength THEN 0
    ELSE ((n - cfg.frameLength) \div cfg.frameStride) + 1

\* Rows the window advances by when the audio advances one stride.
RowsPerStride == cfg.stride \div cfg.frameStride

\* The frame computed by the spectral transform from row j (1-based) of the
\* window of clip c at sample offset off.
Frame(c, off, j) == <<c, off + (j - 1) * cfg.frameStride>>

FreshRows(c, off) == [j \in 1..TimeSteps(cfg.windowSize) |-> Frame(c, off, j)]

\* KWSPreProcess constructor: nothing cached, no window seen.
NewPreProcess ==
    [m_audioWindowIndex |-> 0, lastIndex |-> -1, rows |-> <<>>]

\* The window index is accepted when it is 0 (a traversal begins: the cache
\* is rebuilt) or follows the last one; otherwise SequenceViolation.
SequenceOk(p) ==
    \/ p.m_audioWindowIndex = 0
    \/ p.m_audioWindowIndex = p.lastIndex + 1

\* Row j of the new matrix is taken from the cache (not computed).
Reused(p, j) ==
    LET T    == TimeSteps(cfg.windowSize)
        keep == Max(0, T - RowsPerStride)
    IN  /\ p.m_audioWindowIndex # 0
        /\ j <= keep
        /\ j + (T - keep) <= Len(p.rows)

\* ComputeOrReuse: window 0 computes every row; a later window shifts the
\* cached rows up by RowsPerStride and computes the trailing rows only.
ComputeOrReuse(p, c, off) ==
    LET T    == TimeSteps(cfg.windowSize)
        keep == Max(0, T - RowsPerStride)
    IN  [p EXCEPT
           !.rows = [j \in 1..T |->
                       IF Reused(p, j)
                       THEN p.rows[j + (T - keep)]
                       ELSE Frame(c, off, j)],
           !.lastIndex = p.m_audioWindowIndex]

\* Spectral-transform invocations ComputeOrReuse makes for a window.
TransformCount(p) ==
    Cardinality({j \in 1..TimeSteps(cfg.windowSize) : ~Reused(p, j)})

\* Assemble: the matrix must have the rows the model's input tensor declares.
ShapeOk(rows) == Len(rows) = model.inputRows

(***************************************************************************)
(* The classification model (InferenceInvoker): an opaque deterministic    *)
(* function of the input tensor, fixed by the model's seed.                *)
(***************************************************************************)
RECURSIVE RowSum(_)
RowSum(rows) ==
    IF rows = <<>> THEN 0
    ELSE LET f == Head(rows)
         IN  f[1] + 1 + (f[2] \div cfg.frameStride) + RowSum(Tail(rows))

ModelOutput(rows) ==
    IF model.outputLen = 0 THEN <<>>
    ELSE OutputTensors[((model.seed + RowSum(rows)) % Len(OutputTensors)) + 1]

(***************************************************************************)
(* KWSPostProcess / Classifier (ScoreFilter, ranking part): the top-K      *)
(* candidates by descending score, ties in label order.                    *)
(***************************************************************************)
\* The index in rest with the highest score, the lowest index among equals.
Best(scores, rest) ==
    CHOOSE i \in rest :
        \A j \in rest : scores[i] > scores[j] \/ (scores[i] = scores[j] /\ i <= j)

RECURSIVE Ranked(_, _)
Ranked(scores, rest) ==
    IF rest = {} THEN <<>>
    ELSE LET b == Best(scores, rest)
         IN  <<b>> \o Ranked(scores, rest \ {b})

GetClassificationResults(scores, topK) ==
    LET order == Ranked(scores, DOMAIN scores)
    IN  [k \in 1..Min(topK, Len(scores)) |->
            [m_label |-> Labels[order[k]], m_normalisedVal |-> scores[order[k]]]]

(***************************************************************************)
(* kws::KwsResult: the candidates at or above the threshold, the time      *)
(* stamp, the inference index and the threshold used.                      *)
(***************************************************************************)
AboveThreshold(r, threshold) == r.m_normalisedVal >= threshold

KwsResult(resultVec, timeStamp, inferenceIdx, scoreThreshold) ==
    [m_resultVec |-> SelectSeq(resultVec, LAMBDA r : AboveThreshold(r, scoreThreshold)),
     m_timeStamp |-> timeStamp,
     m_inferenceNumber |-> inferenceIdx,
     m_threshold |-> scoreThreshold]

\* secondsPerSample = 1.0 / ms_defaultSamplingFreq, as a rational.
secondsPerSample == [num |-> 1, den |-> ms_defaultSamplingFreq]

\* index * secondsPerSample * stride
TimeStamp(index, stride) ==
    [num |-> index * secondsPerSample.num * stride, den |-> secondsPerSample.den]

(***************************************************************************)
(* UseCaseCommonUtils: the clip index of the context.                      *)
(***************************************************************************)
IncrementAppCtxIfmIdx(idx) == (idx + 1) % NUMBER_OF_FILES


(***************************************************************************)
(* Initial state: the application context before the first call.           *)
(***************************************************************************)
CtxConfigs ==
    { [unit |-> c.unit, windowSize |-> c.windowSize, stride |-> c.stride,
       frameLength |-> c.frameLength, frameStride |-> c.frameStride,
       scoreThreshold |-> t, topK |-> k] :
        c \in Configs, t \in Thresholds, k \in TopKs }

UninitialisedModel ==
    [inited |-> FALSE, dims |-> [isNull |-> TRUE, size |-> 0],
     inputRows |-> 0, outputLen |-> 0, seed |-> 0]

\* The networks that can be loaded: dims, the rows of the input tensor, the
\* length of the output tensor and the seed of the function it computes.
LoadedModel_NotInited(d, rows, outLen, seed) ==
    [inited |-> FALSE, dims |-> d, inputRows |-> rows, outputLen |-> outLen,
     seed |-> seed]

LoadedModel(d, rows, outLen, seed) ==
    [inited |-> TRUE, dims |-> d, inputRows |-> rows, outputLen |-> outLen,
     seed |-> seed]

GoodDims == {d \in DimsChoices : ~d.isNull /\ d.size >= minTensorDims}

\* One network per way of being unusable (no or too few dims, an input tensor
\* that does not have the rows of the feature matrix, an empty output tensor),
\* and the usable networks, one per seed.
LoadableModels ==
    { LoadedModel(d, 0, 0, 0) : d \in DimsChoices \ GoodDims }
    \cup { LoadedModel(d, TimeSteps(cfg.windowSize) + 1, Len(Labels), 0) : d \in GoodDims }
    \cup { LoadedModel(d, TimeSteps(cfg.windowSize), 0, 0) : d \in GoodDims }
    \cup { LoadedModel(d, TimeSteps(cfg.windowSize), Len(Labels), seed) :
              d \in GoodDims, seed \in Seeds }

Init ==
    /\ cfg \in CtxConfigs
    /\ clipSize \in [Clips -> {cfg.unit * n : n \in 0..MaxLen}]
    /\ model = UninitialisedModel
    /\ ctxClipIndex = 0
    /\ ctxResults = <<>>
    /\ pc = "idle"
    /\ ret = TRUE
    /\ runAll = FALSE
    /\ initialClipIdx = 0
    /\ currentIndex = 0
    /\ audioDataSlider = SlidingWindow(0, cfg.windowSize, cfg.stride)
    /\ inferenceWindow = 0
    /\ finalResults = <<>>
    /\ singleInfResult = <<>>
    /\ preprocess = NewPreProcess
    /\ inputTensor = <<>>
    /\ outputTensor = <<>>
    /\ profiling = FALSE
    /\ log = <<>>
    /\ stored = <<>>
    /\ presented = <<>>
    /\ processed = <<>>
    /\ failedAt = "none"
    /\ resultsAtCall = <<>>
    /\ clipIndexAtCall = 0
    /\ lastRun = [c \in Clips |-> [done |-> FALSE, results |-> <<>>]]

(***************************************************************************)
(* Model::Init: the model becomes ready; its tensors are what the loaded   *)
(* network declares.                                                       *)
(***************************************************************************)
ModelInit ==
    /\ pc \in {"idle", "done"}
    /\ ~model.inited
    /\ model' \in LoadableModels
    /\ UNCHANGED <<cfg, clipSize, ctxClipIndex, ctxResults, pc, ret, runAll,
                   initialClipIdx, currentIndex, audioDataSlider, inferenceWindow,
                   finalResults, singleInfResult, preprocess, inputTensor,
                   outputTensor, profiling, log, stored, presented, processed,
                   failedAt, resultsAtCall, clipIndexAtCall, lastRun>>

\* A new model instance, with the context and the tensors of a new run of
\* the application: nothing is initialised yet.
ModelConstruct ==
    /\ pc \in {"idle", "done"}
    /\ model.inited
    /\ model' = UninitialisedModel
    /\ ctxClipIndex' = 0
    /\ ctxResults' = <<>>
    /\ pc' = "idle"
    /\ ret' = TRUE
    /\ runAll' = FALSE
    /\ initialClipIdx' = 0
    /\ currentIndex' = 0
    /\ audioDataSlider' = SlidingWindow(0, cfg.windowSize, cfg.stride)
    /\ inferenceWindow' = 0
    /\ finalResults' = <<>>
    /\ singleInfResult' = <<>>
    /\ preprocess' = NewPreProcess
    /\ inputTensor' = <<>>
    /\ outputTensor' = <<>>
    /\ profiling' = FALSE
    /\ log' = <<>>
    /\ stored' = <<>>
    /\ presented' = <<>>
    /\ processed' = <<>>
    /\ failedAt' = "none"
    /\ resultsAtCall' = <<>>
    /\ clipIndexAtCall' = 0
    /\ lastRun' = [c \in Clips |-> [done |-> FALSE, results |-> <<>>]]
    /\ UNCHANGED <<cfg, clipSize>>

(***************************************************************************)
(* ClassifyAudioHandler, step by step.                                     *)
(***************************************************************************)
\* return value; why names the check or stage that failed ("none": success)
Return(value, why) ==
    /\ pc' = "done"
    /\ ret' = value
    /\ failedAt' = why

\* A failed stage of a window: return false.
StageFailed_Ignored(why, next) ==
    /\ pc' = next
    /\ ret' = ret
    /\ failedAt' = why

StageFailed(why, next) == Return(FALSE, why)

\* The checks of the model before any processing: lines 68-80.
EntryCheck_NoMinDims ==
    IF ~model.inited THEN "notinited"
    ELSE IF model.dims.isNull THEN "nodims"
    ELSE "none"

EntryCheck ==
    IF ~model.inited THEN "notinited"
    ELSE IF model.dims.isNull THEN "nodims"
    ELSE IF model.dims.size < minTensorDims THEN "fewdims"
    ELSE "none"

\* if (clipIndex < NUMBER_OF_FILES): line 54.
UseArgument_LessEq(clipIndex) == clipIndex <= NUMBER_OF_FILES

UseArgument(clipIndex) == clipIndex < NUMBER_OF_FILES

\* Entry: lines 48-98. setOk is the outcome of SetAppCtxIfmIdx.
Call(clipIndex, all, setOk) ==
    /\ pc \in {"idle", "done"}
    /\ runAll' = all
    /\ clipIndexAtCall' = clipIndex
    /\ resultsAtCall' = ctxResults
    /\ log' = <<>>
    /\ stored' = <<>>
    /\ presented' = <<>>
    /\ processed' = <<>>
    /\ IF UseArgument(clipIndex) /\ ~setOk
       THEN /\ Return(FALSE, "setidx")
            /\ UNCHANGED <<ctxClipIndex, initialClipIdx>>
       ELSE /\ ctxClipIndex' = IF UseArgument(clipIndex) THEN clipIndex
                                ELSE ctxClipIndex
            /\ initialClipIdx' = ctxClipIndex'
            /\ IF EntryCheck # "none"
               THEN Return(FALSE, EntryCheck)
               ELSE /\ pc' = "clip"
                    /\ ret' = TRUE
                    /\ failedAt' = "none"
    \* the locals of the call start as at construction
    /\ preprocess' = NewPreProcess
    /\ singleInfResult' = <<>>
    /\ currentIndex' = 0
    /\ audioDataSlider' = SlidingWindow(0, cfg.windowSize, cfg.stride)
    /\ inferenceWindow' = 0
    /\ finalResults' = <<>>
    /\ UNCHANGED <<cfg, clipSize, model, ctxResults, inputTensor, outputTensor,
                   profiling, lastRun>>

\* std::vector<kws::KwsResult> finalResults, declared in the loop body.
FreshFinalResults_Carry == finalResults

FreshFinalResults == <<>>

\* The slicer of a clip, over that clip's samples: lines 106-109.
ClipSlider_InitialClip(c) ==
    SlidingWindow(clipSize[initialClipIdx], cfg.windowSize, cfg.stride)

ClipSlider(c) == SlidingWindow(clipSize[c], cfg.windowSize, cfg.stride)

\* Top of the do-while body: lines 101-119.
ClipStart ==
    /\ pc = "clip"
    /\ currentIndex' = ctxClipIndex
    /\ audioDataSlider' = ClipSlider(ctxClipIndex)
    /\ finalResults' = FreshFinalResults
    /\ log' = <<>>
    /\ processed' = Append(processed, ctxClipIndex)
    /\ pc' = "loop"
    /\ UNCHANGED <<cfg, clipSize, model, ctxClipIndex, ctxResults, ret, runAll,
                   initialClipIdx, inferenceWindow, singleInfResult, preprocess,
                   inputTensor, outputTensor, profiling, stored, presented,
                   failedAt, resultsAtCall, clipIndexAtCall, lastRun>>

\* The condition of the window loop: line 122.
LoopCondition_DoWhile == audioDataSlider.count = 0 \/ HasNext(audioDataSlider)

LoopCondition == HasNext(audioDataSlider)

\* The window index handed to the pre-processor: line 126.
CacheIndex_Count(s) == s.count

CacheIndex_Zero(s) == 0

CacheIndex(s) == Index(s)

\* The stage that follows a stage of the loop body: lines 131-149.
StageAfter_SkipInference(stage) ==
    CASE stage = "pre" -> "post"
      [] stage = "infer" -> "post"
      [] stage = "post" -> "append"
      [] stage = "append" -> "loop"

StageAfter(stage) ==
    CASE stage = "pre" -> "infer"
      [] stage = "infer" -> "post"
      [] stage = "post" -> "append"
      [] stage = "append" -> "loop"

\* while (HasNext()) { Next(); m_audioWindowIndex = Index(); : lines 122-129.
NextWindow ==
    /\ pc = "loop"
    /\ LoopCondition
    /\ audioDataSlider' = Next_(audioDataSlider)
    /\ inferenceWindow' = WindowOffset(audioDataSlider')
    /\ preprocess' = [preprocess EXCEPT
                        !.m_audioWindowIndex = CacheIndex(audioDataSlider')]
    /\ pc' = "pre"
    /\ UNCHANGED <<cfg, clipSize, model, ctxClipIndex, ctxResults, ret, runAll,
                   initialClipIdx, currentIndex, finalResults, singleInfResult,
                   inputTensor, outputTensor, profiling, log, stored, presented,
                   processed, failedAt, resultsAtCall, clipIndexAtCall, lastRun>>

\* runner.PreProcess: lines 132-134.
PreProcess ==
    /\ pc = "pre"
    /\ log' = Append(log, [stage |-> "pre", n |-> preprocess.m_audioWindowIndex,
                           off |-> inferenceWindow,
                           fresh |-> IF SequenceOk(preprocess)
                                     THEN TransformCount(preprocess) ELSE 0])
    /\ LET p == ComputeOrReuse(preprocess, currentIndex, inferenceWindow)
       IN  IF SequenceOk(preprocess) /\ ShapeOk(p.rows)
           THEN /\ preprocess' = p
                /\ inputTensor' = p.rows
                /\ pc' = StageAfter("pre")
                /\ UNCHANGED <<ret, failedAt>>
           ELSE /\ StageFailed(IF SequenceOk(preprocess) THEN "shape"
                               ELSE "sequence", StageAfter("pre"))
                /\ UNCHANGED <<preprocess, inputTensor>>
    /\ UNCHANGED <<cfg, clipSize, model, ctxClipIndex, ctxResults, runAll,
                   initialClipIdx, currentIndex, audioDataSlider, inferenceWindow,
                   finalResults, singleInfResult, outputTensor, profiling,
                   stored, presented, processed, resultsAtCall, clipIndexAtCall, lastRun>>

\* StartProfiling; runner.RunInference succeeds; StopProfiling: lines 136-140.
RunInferenceOk ==
    /\ pc = "infer"
    /\ outputTensor' = ModelOutput(inputTensor)
    /\ profiling' = FALSE
    /\ log' = log \o << [stage |-> "start", n |-> Index(audioDataSlider), off |-> 0, fresh |-> 0],
                        [stage |-> "infer", n |-> Index(audioDataSlider), off |-> 0, fresh |-> 0],
                        [stage |-> "stop", n |-> Index(audioDataSlider), off |-> 0, fresh |-> 0] >>
    /\ pc' = StageAfter("infer")
    /\ UNCHANGED <<cfg, clipSize, model, ctxClipIndex, ctxResults, ret, runAll,
                   initialClipIdx, currentIndex, audioDataSlider, inferenceWindow,
                   finalResults, singleInfResult, preprocess, inputTensor, stored,
                   presented, processed, failedAt, resultsAtCall, clipIndexAtCall, lastRun>>

\* StartProfiling; runner.RunInference fails; return false: lines 136-139.
RunInferenceFail ==
    /\ pc = "infer"
    /\ profiling' = TRUE
    /\ log' = log \o << [stage |-> "start", n |-> Index(audioDataSlider), off |-> 0, fresh |-> 0],
                        [stage |-> "infer", n |-> Index(audioDataSlider), off |-> 0, fresh |-> 0] >>
    /\ StageFailed("infer", StageAfter("infer"))
    /\ UNCHANGED <<cfg, clipSize, model, ctxClipIndex, ctxResults, runAll,
                   initialClipIdx, currentIndex, audioDataSlider, inferenceWindow,
                   finalResults, singleInfResult, preprocess, inputTensor,
                   outputTensor, stored, presented, processed, resultsAtCall,
                   clipIndexAtCall, lastRun>>

\* runner.PostProcess: lines 142-144. An empty output tensor is an error.
PostProcess ==
    /\ pc = "post"
    /\ log' = Append(log, [stage |-> "post", n |-> Index(audioDataSlider), off |-> 0, fresh |-> 0])
    /\ IF Len(outputTensor) = 0
       THEN /\ StageFailed("post", StageAfter("post"))
            /\ UNCHANGED singleInfResult
       ELSE /\ singleInfResult' = GetClassificationResults(outputTensor, cfg.topK)
            /\ pc' = StageAfter("post")
            /\ UNCHANGED <<ret, failedAt>>
    /\ UNCHANGED <<cfg, clipSize, model, ctxClipIndex, ctxResults, runAll,
                   initialClipIdx, currentIndex, audioDataSlider, inferenceWindow,
                   finalResults, preprocess, inputTensor, outputTensor, profiling,
                   stored, presented, processed, resultsAtCall, clipIndexAtCall, lastRun>>

\* kws::KwsResult(singleInfResult, Index() * secondsPerSample * m_audioDataStride,
\*                Index(), scoreThreshold): lines 147-149.
NewKwsResult_CountIndex ==
    KwsResult(singleInfResult,
              TimeStamp(Index(audioDataSlider), cfg.stride),
              audioDataSlider.count, cfg.scoreThreshold)

NewKwsResult_WindowStamp ==
    KwsResult(singleInfResult,
              TimeStamp(Index(audioDataSlider), cfg.windowSize),
              Index(audioDataSlider), cfg.scoreThreshold)

NewKwsResult_NoThreshold ==
    KwsResult(singleInfResult,
              TimeStamp(Index(audioDataSlider), cfg.stride),
              Index(audioDataSlider), 0)

NewKwsResult ==
    KwsResult(singleInfResult,
              TimeStamp(Index(audioDataSlider), cfg.stride),
              Index(audioDataSlider), cfg.scoreThreshold)

\* finalResults.emplace_back(...): line 147.
EmplaceBack_SkipEmpty(results, r) ==
    IF r.m_resultVec = <<>> THEN results ELSE Append(results, r)

EmplaceBack_Alias(results, r) ==
    Append([i \in DOMAIN results |->
               [results[i] EXCEPT !.m_resultVec = r.m_resultVec]], r)

EmplaceBack(results, r) == Append(results, r)

\* ctx "results" inside the window loop: not set there, lines 122-150.
CtxResultsInLoop_Set(results) == results

CtxResultsInLoop(results) == ctxResults

\* Add the results of this window to the final results: lines 146-149.
AppendResult ==
    /\ pc = "append"
    /\ finalResults' = EmplaceBack(finalResults, NewKwsResult)
    /\ ctxResults' = CtxResultsInLoop(finalResults')
    /\ log' = Append(log, [stage |-> "append", n |-> Index(audioDataSlider),
                           off |-> 0, fresh |-> 0])
    /\ pc' = StageAfter("append")
    /\ UNCHANGED <<cfg, clipSize, model, ctxClipIndex, ret, runAll,
                   initialClipIdx, currentIndex, audioDataSlider, inferenceWindow,
                   singleInfResult, preprocess, inputTensor, outputTensor,
                   profiling, stored, presented, processed, failedAt,
                   resultsAtCall, clipIndexAtCall, lastRun>>

\* The window loop ends; ctx.Set("results", finalResults): lines 155-162.
StoreResults ==
    /\ pc = "loop"
    /\ ~LoopCondition
    /\ ctxResults' = finalResults
    /\ stored' = Append(stored, currentIndex)
    /\ pc' = "present"
    /\ UNCHANGED <<cfg, clipSize, model, ctxClipIndex, ret, runAll,
                   initialClipIdx, currentIndex, audioDataSlider, inferenceWindow,
                   finalResults, singleInfResult, preprocess, inputTensor,
                   outputTensor, profiling, log, presented, processed, failedAt,
                   resultsAtCall, clipIndexAtCall, lastRun>>

\* PresentInferenceResult always reports success: lines 177-228.
PresentInferenceResult(results) == TRUE

\* while (runAll && ctx.Get<uint32_t>("clipIndex") != initialClipIdx): line 172.
ContinueLoop_NoRunAll(next) == next # initialClipIdx

ContinueLoop(next) == runAll /\ next # initialClipIdx

\* Present, advance the clip index, loop condition: lines 164-174.
PresentAndAdvance ==
    /\ pc = "present"
    /\ presented' = Append(presented, finalResults)
    /\ lastRun' = [lastRun EXCEPT
                     ![currentIndex] = [done |-> TRUE, results |-> finalResults]]
    /\ IF ~PresentInferenceResult(finalResults)
       THEN /\ Return(FALSE, "present")
            /\ UNCHANGED ctxClipIndex
       ELSE /\ ctxClipIndex' = IncrementAppCtxIfmIdx(ctxClipIndex)
            /\ IF ContinueLoop(ctxClipIndex')
               THEN /\ pc' = "clip"
                    /\ UNCHANGED <<ret, failedAt>>
               ELSE Return(TRUE, "none")
    /\ UNCHANGED <<cfg, clipSize, model, ctxResults, runAll, initialClipIdx,
                   currentIndex, audioDataSlider, inferenceWindow, finalResults,
                   singleInfResult, preprocess, inputTensor, outputTensor,
                   profiling, log, stored, processed, resultsAtCall,
                   clipIndexAtCall>>

Next ==
    \/ ModelInit
    \/ ModelConstruct
    \/ \E clipIndex \in 0..NUMBER_OF_FILES, all \in BOOLEAN, setOk \in BOOLEAN :
          Call(clipIndex, all, setOk)
    \/ ClipStart
    \/ NextWindow
    \/ PreProcess
    \/ RunInferenceOk
    \/ RunInferenceFail
    \/ PostProcess
    \/ AppendResult
    \/ StoreResults
    \/ PresentAndAdvance

Spec == Init /\ [][Next]_vars


(***************************************************************************)
(* Properties.                                                             *)
(***************************************************************************)
Last(seq) == seq[Len(seq)]
Range(seq) == {seq[i] : i \in DOMAIN seq}

EventsOf(stage) == SelectSeq(log, LAMBDA e : e.stage = stage)

\* The failures of a window's stages, and the log stage each one ends at.
WindowFailures == {"sequence", "shape", "infer", "post"}
StageOfFailure(why) == IF why \in {"sequence", "shape"} THEN "pre" ELSE why

\* C1: when PreProcess, RunInference or PostProcess fails on a window, the
\* handler has returned false at that very stage of that window (no later
\* stage, window or clip was started), and the results of the failing clip
\* were neither stored in ctx "results" nor presented: the context holds what
\* the last completed clip of the call stored, or what it held at the call.
C1_FailFast ==
    failedAt \in WindowFailures =>
        /\ pc = "done"
        /\ ret = FALSE
        /\ processed # <<>>
        /\ Last(processed) = currentIndex
        /\ log # <<>>
        /\ Last(log).stage = StageOfFailure(failedAt)
        /\ Last(log).n = Index(audioDataSlider)
        /\ Len(EventsOf("pre")) = audioDataSlider.count
        /\ Len(stored) = Len(processed) - 1
        /\ Len(presented) = Len(processed) - 1
        /\ \A i \in DOMAIN stored : stored[i] = processed[i]
        /\ ctxResults = IF presented = <<>> THEN resultsAtCall ELSE Last(presented)

\* A clip of a runAll call fails at inference after one of its windows was
\* appended and after an earlier clip was presented.
C1_Witness ==
    /\ failedAt = "infer"
    /\ Len(finalResults) >= 1
    /\ Len(presented) >= 1

\* C2: the traversal of a clip at least one window long yields exactly
\* floor((bufferLength - windowSize) / stride) + 1 windows, window k starts at
\* sample k * stride and ends inside the buffer, and a clip that completes
\* stores one KwsResult per window.
C2_WindowCount ==
    /\ \A j \in DOMAIN EventsOf("pre") :
          /\ EventsOf("pre")[j].off = (j - 1) * cfg.stride
          /\ EventsOf("pre")[j].off + cfg.windowSize <= clipSize[currentIndex]
    /\ (pc = "present" /\ clipSize[currentIndex] >= cfg.windowSize) =>
          LET n == ((clipSize[currentIndex] - cfg.windowSize) \div cfg.stride) + 1
          IN  /\ audioDataSlider.count = n
              /\ Len(EventsOf("pre")) = n
              /\ Len(ctxResults) = n

\* A completed clip whose length is not a whole number of strides.
C2_Witness ==
    /\ pc = "present"
    /\ cfg.windowSize = 2
    /\ cfg.stride = 2
    /\ clipSize[currentIndex] = 3
    /\ Len(ctxResults) = 1

\* C3: the k-th result appended (0-based) carries inference index k, was built
\* from the k-th window of the traversal, and k never exceeds TotalStrides();
\* there is one result per append, in append order.
C3_IndexOrder ==
    /\ Len(finalResults) = Len(EventsOf("append"))
    /\ \A k \in DOMAIN finalResults :
          /\ finalResults[k].m_inferenceNumber = k - 1
          /\ finalResults[k].m_inferenceNumber <= TotalStrides(audioDataSlider)
          /\ EventsOf("append")[k].n = k - 1
          /\ EventsOf("pre")[k].off = finalResults[k].m_inferenceNumber * cfg.stride

C3_Witness ==
    /\ Len(finalResults) = 3
    /\ pc = "loop"

\* Every KwsResult the state holds.
AllKwsResults ==
    Range(finalResults) \cup Range(ctxResults)
        \cup UNION {Range(presented[i]) : i \in DOMAIN presented}

\* C4: a KwsResult records the configured score threshold and holds no
\* candidate below it; a window whose scores are all below the threshold
\* gives an empty candidate list, and threshold 0.9 with scores
\* [0.95, 0.4, 0.3] gives ("yes", 0.95) alone.
C4_Threshold ==
    /\ \A r \in AllKwsResults :
          /\ r.m_threshold = cfg.scoreThreshold
          /\ \A i \in DOMAIN r.m_resultVec :
                r.m_resultVec[i].m_normalisedVal >= r.m_threshold
    /\ (pc = "loop" /\ finalResults # <<>>) =>
          /\ (\A i \in DOMAIN outputTensor : outputTensor[i] < cfg.scoreThreshold)
                => Last(finalResults).m_resultVec = <<>>
          /\ (cfg.scoreThreshold = 90 /\ outputTensor = <<95, 40, 30>>)
                => Last(finalResults).m_resultVec =
                      << [m_label |-> "yes", m_normalisedVal |-> 95] >>

\* The scenario's window follows a window with nothing above the threshold.
C4_Witness ==
    /\ pc = "loop"
    /\ cfg.scoreThreshold = 90
    /\ cfg.topK = 2
    /\ outputTensor = <<95, 40, 30>>
    /\ Len(finalResults) >= 2
    /\ \E k \in DOMAIN finalResults : finalResults[k].m_resultVec = <<>>

\* The model is not ready, or its input tensor has no or too few dims.
BadModel ==
    \/ ~model.inited
    \/ model.dims.isNull
    \/ model.dims.size < minTensorDims

\* C5: with a model that is not initialised, or an input tensor with no dims
\* or fewer than minTensorDims, the handler never gets to a clip: a call
\* returns false with no window sliced or processed, nothing stored or
\* presented, and ctx "results" as it was at the call.
C5_EntryChecks ==
    BadModel =>
        /\ pc \in {"idle", "done"}
        /\ pc = "done" =>
              /\ ret = FALSE
              /\ failedAt \in {"setidx", "notinited", "nodims", "fewdims"}
              /\ processed = <<>>
              /\ log = <<>>
              /\ audioDataSlider.count = 0
              /\ stored = <<>>
              /\ presented = <<>>
              /\ ctxResults = resultsAtCall

C5_Witness ==
    /\ pc = "done"
    /\ failedAt = "fewdims"
    /\ clipIndexAtCall < NUMBER_OF_FILES


ShortClip(c) == clipSize[c] < cfg.windowSize

\* C6: for a clip shorter than the window the loop body is never entered (no
\* stage runs, no window is sliced), the empty sequence is stored and
\* presented, no failure comes from the clip, and a call that ends with such
\* a clip returns true.
C6_ShortClip ==
    /\ (pc \in {"loop", "pre", "infer", "post", "append", "present"}
            /\ ShortClip(currentIndex)) =>
          /\ pc \in {"loop", "present"}
          /\ log = <<>>
          /\ audioDataSlider.count = 0
          /\ finalResults = <<>>
          /\ pc = "present" => ctxResults = <<>> /\ Last(stored) = currentIndex
    /\ \A i \in DOMAIN presented : ShortClip(processed[i]) => presented[i] = <<>>
    /\ failedAt \in WindowFailures => ~ShortClip(currentIndex)
    /\ (pc = "done" /\ processed # <<>> /\ ShortClip(Last(processed))) =>
          /\ ret = TRUE
          /\ failedAt = "none"
          /\ Len(presented) = Len(processed)
          /\ Last(presented) = <<>>
          /\ ctxResults = <<>>

\* A call for one clip that has samples, but fewer than a window.
C6_Witness ==
    /\ pc = "done"
    /\ ret = TRUE
    /\ processed # <<>>
    /\ ShortClip(Last(processed))
    /\ clipSize[Last(processed)] > 0
    /\ presented = << <<>> >>

\* C7: the time stamp of the result of window k is the start offset of the
\* window in seconds, k * stride / samplingFrequency; time stamps increase
\* strictly along the sequence; with windowSize = stride = 16000 and a
\* 48000-sample clip there are 3 results, at 0, 1 and 2 seconds.
C7_TimeStamps ==
    /\ \A k \in DOMAIN finalResults :
          LET ts == finalResults[k].m_timeStamp
          IN  /\ ts.den > 0
              /\ ts.num * ms_defaultSamplingFreq = (k - 1) * cfg.stride * ts.den
              /\ ts.num * ms_defaultSamplingFreq = EventsOf("pre")[k].off * ts.den
    /\ \A k \in 1..(Len(finalResults) - 1) :
          finalResults[k].m_timeStamp.num * finalResults[k + 1].m_timeStamp.den
            < finalResults[k + 1].m_timeStamp.num * finalResults[k].m_timeStamp.den
    /\ (pc = "present" /\ cfg.windowSize = 16000 /\ cfg.stride = 16000
            /\ clipSize[currentIndex] = 48000) =>
          /\ Len(ctxResults) = 3
          /\ \A k \in 1..3 :
                ctxResults[k].m_timeStamp.num = (k - 1) * ctxResults[k].m_timeStamp.den

C7_Witness ==
    /\ pc = "present"
    /\ cfg.windowSize = 16000
    /\ cfg.stride = 16000
    /\ clipSize[currentIndex] = 48000
    /\ Len(ctxResults) = 3

\* The events of one window, in program order.
StageCycle == <<"pre", "start", "infer", "stop", "post", "append">>

\* C8: within a clip the stages run in the order PreProcess(n),
\* RunInference(n), PostProcess(n), append n, for n = 0, 1, 2, ...: the log of
\* the clip is a prefix of that sequence, so no stage of window n + 1 comes
\* before the append of window n, and every appended window had exactly one
\* inference.
C8_StageOrder ==
    /\ \A i \in DOMAIN log :
          /\ log[i].stage = StageCycle[((i - 1) % Len(StageCycle)) + 1]
          /\ log[i].n = (i - 1) \div Len(StageCycle)
    /\ Len(finalResults) = Len(EventsOf("append"))
    /\ \A k \in DOMAIN finalResults :
          Cardinality({i \in DOMAIN log :
                          log[i].stage = "infer" /\ log[i].n = k - 1}) = 1

C8_Witness ==
    /\ pc = "post"
    /\ Len(finalResults) = 2
    /\ Len(log) = 3 * Len(StageCycle) - 2

\* The results of clip c computed on their own: every window's features
\* computed from scratch, from the clip's samples alone.
ExpectedResults(c) ==
    [k \in 1..NumWindows(clipSize[c], cfg.windowSize, cfg.stride) |->
        KwsResult(GetClassificationResults(
                      ModelOutput(FreshRows(c, (k - 1) * cfg.stride)), cfg.topK),
                  TimeStamp(k - 1, cfg.stride), k - 1, cfg.scoreThreshold)]

\* C9: nothing leaks from one clip of a call to the next: each clip starts
\* with an empty result sequence and a slicer at offset 0 over its own buffer,
\* the first window index handed to the shared pre-processor is 0, the
\* features of every window are those of the clip's own samples, and what is
\* stored and presented for a clip is what the clip gives on its own.
C9_NoLeak ==
    /\ (pc = "loop" /\ audioDataSlider.count = 0) =>
          /\ finalResults = <<>>
          /\ log = <<>>
    /\ pc \in {"loop", "pre", "infer", "post", "append", "present"} =>
          audioDataSlider.dataSize = clipSize[currentIndex]
    /\ EventsOf("pre") # <<>> =>
          /\ EventsOf("pre")[1].n = 0
          /\ EventsOf("pre")[1].off = 0
    /\ pc \in {"infer", "post", "append"} =>
          inputTensor = FreshRows(currentIndex, inferenceWindow)
    /\ pc = "present" => ctxResults = ExpectedResults(currentIndex)
    /\ \A i \in DOMAIN presented : presented[i] = ExpectedResults(processed[i])

\* A runAll call over two clips, the second with overlapping windows.
C9_Witness ==
    /\ pc = "done"
    /\ Len(presented) = 2
    /\ presented[1] # <<>>
    /\ Len(presented[2]) >= 2
    /\ cfg.stride < cfg.windowSize
    /\ presented[1] # presented[2]

RowsExposed == Min(TimeSteps(cfg.windowSize), RowsPerStride)

C11_OverlapWitness ==
    /\ pc = "infer"
    /\ Len(EventsOf("pre")) = 2
    /\ cfg.frameLength > cfg.frameStride
    /\ TimeSteps(cfg.stride) = 0
    /\ Last(EventsOf("pre")).fresh = 1

\* C12: processing a clip again, with the same configuration and the same
\* model, gives the KwsResult sequence its previous run gave (same length,
\* labels, scores, time stamps and inference numbers), whatever was
\* processed in between.
C12_Repeatable ==
    (pc = "present" /\ lastRun[currentIndex].done) =>
        /\ finalResults = lastRun[currentIndex].results
        /\ ctxResults = lastRun[currentIndex].results

\* A clip of two overlapping windows run a second time, as the second clip
\* of a run over all clips, the other clip's non-empty run in between.
C12_Witness ==
    /\ pc = "present"
    /\ lastRun[currentIndex].done
    /\ Len(processed) = 2
    /\ presented[1] # <<>>
    /\ Len(finalResults) = 2
    /\ cfg.stride < cfg.windowSize
    /\ presented[1] # finalResults

\* The handler is past its entry checks, or has run a stage of a window.
InferencePossible ==
    \/ pc \in {"clip", "loop", "pre", "infer", "post", "append", "present"}
    \/ log # <<>>
    \/ processed # <<>>

\* C13: a newly constructed model is not initialised; Init() makes it
\* initialised, and it stays so for the life of the instance; inference runs
\* only on an initialised model (a call on any other returns false without
\* processing). This holds for every instance constructed.
C13_InitLifecycle ==
    /\ [](InferencePossible => model.inited)
    /\ []((~model.inited /\ pc = "done") =>
            (~ret /\ failedAt \in {"setidx", "notinited"}))
    /\ [][/\ ModelConstruct => ~model'.inited
          /\ ModelInit => (~model.inited /\ model'.inited)
          /\ (model.inited /\ model'.inited) => model' = model]_vars

\* An inference that succeeded on the initialised model of a later instance:
\* the context holds nothing of an earlier one.
C13_Witness ==
    /\ pc = "post"
    /\ model.inited
    /\ Last(log).stage = "stop"
    /\ ctxResults = <<>>
    /\ ctxClipIndex = 1

\* The positions of the handler inside the window loop of a clip.
InClip == {"loop", "pre", "infer", "post", "append"}

\* C14: a KwsResult appended to a clip's final results is never changed by
\* a later step of the clip, although every window writes the shared
\* singleInfResult: the record added for a window holds the candidates
\* singleInfResult had then, and the earlier records stay as they were.
C14_Immutable ==
    [][(pc \in InClip /\ pc' \in InClip \cup {"present", "done"}) =>
          /\ Len(finalResults') >= Len(finalResults)
          /\ \A i \in DOMAIN finalResults : finalResults'[i] = finalResults[i]
          /\ Len(finalResults') > Len(finalResults) =>
                Last(finalResults').m_resultVec =
                    SelectSeq(singleInfResult,
                              LAMBDA r : AboveThreshold(r, cfg.scoreThreshold))]_vars

\* The shared buffer holds the candidates of the second window, other than
\* those the first window's record keeps.
C14_Witness ==
    /\ pc = "loop"
    /\ Len(finalResults) = 2
    /\ finalResults[1].m_resultVec # <<>>
    /\ finalResults[2].m_resultVec # <<>>
    /\ finalResults[1].m_resultVec # finalResults[2].m_resultVec
    /\ finalResults[1].m_resultVec # singleInfResult

\* The clips a call processes when nothing fails, in order.
ClipOrder ==
    IF runAll
    THEN [i \in 1..NUMBER_OF_FILES |-> (initialClipIdx + i - 1) % NUMBER_OF_FILES]
    ELSE <<initialClipIdx>>

IsPrefix(s, t) == Len(s) <= Len(t) /\ \A i \in DOMAIN s : s[i] = t[i]

Running == InClip \cup {"clip", "present"}

\* The steps the handler has left at most: the clips not started yet, then
\* the windows of the current clip not taken yet, then the stages of the
\* current window.
StepsLeft ==
    LET stages   == Len(StageCycle)
        windows  == NumWindows(MaxLen * cfg.unit, cfg.windowSize, cfg.stride)
        perClip  == 3 + (windows + 1) * stages
        left     == TotalStrides(audioDataSlider) + 1 - audioDataSlider.count
        inWindow == CASE pc = "pre" -> 4 [] pc = "infer" -> 3 [] pc = "post" -> 2
                      [] pc = "append" -> 1 [] OTHER -> 0
    IN  (Len(ClipOrder) - Len(processed)) * perClip
        + (CASE pc = "clip" -> 0
             [] pc = "present" -> 1
             [] pc \in InClip -> 2 + left * stages + inWindow
             [] OTHER -> 0)

\* C15: a call processes the clips in cyclic order from the initial index,
\* each at most once: all of them when runAll is set, one otherwise. It
\* terminates (every step of the handler lowers StepsLeft, which is never
\* negative), and when nothing failed every clip of the order was processed
\* and ctx clipIndex is the initial index again (runAll) or one past the
\* initial index, wrapping (otherwise).
C15_CyclicOnce ==
    /\ [](pc \in Running => (IsPrefix(processed, ClipOrder) /\ StepsLeft >= 0))
    /\ []((pc = "done" /\ ret) =>
            /\ processed = ClipOrder
            /\ stored = ClipOrder
            /\ ctxClipIndex = IF runAll THEN initialClipIdx
                               ELSE (initialClipIdx + 1) % NUMBER_OF_FILES)
    /\ [][(pc \in Running /\ pc' # "done") => (StepsLeft' < StepsLeft)]_vars

\* A run over all clips that started at the last clip and wrapped around.
C15_Witness ==
    /\ pc = "done"
    /\ ret
    /\ runAll
    /\ initialClipIdx = NUMBER_OF_FILES - 1
    /\ processed = <<NUMBER_OF_FILES - 1, 0>>
    /\ ctxClipIndex = NUMBER_OF_FILES - 1
    /\ presented[1] # <<>>
    /\ presented[2] # <<>>

\* A single-clip call on the last clip: the index wrapped to 0.
C15_WrapWitness ==
    /\ pc = "done"
    /\ ret
    /\ ~runAll
    /\ processed = <<NUMBER_OF_FILES - 1>>
    /\ ctxClipIndex = 0

\* C16: a clipIndex argument of NUMBER_OF_FILES or more is not rejected: ctx
\* clipIndex keeps its stored value and the clip it names is processed
\* first. A smaller argument is set as ctx clipIndex and that clip is
\* processed first; if setting it fails the call returns false and nothing
\* is processed.
C16_ClipIndexArgument ==
    /\ [](failedAt = "setidx" =>
            /\ pc = "done" /\ ~ret
            /\ clipIndexAtCall < NUMBER_OF_FILES
            /\ processed = <<>> /\ log = <<>> /\ presented = <<>>
            /\ ctxResults = resultsAtCall)
    /\ [](processed # <<>> =>
            /\ processed[1] = initialClipIdx
            /\ clipIndexAtCall < NUMBER_OF_FILES => processed[1] = clipIndexAtCall)
    /\ [][\A setOk \in BOOLEAN :
            LET clipIndex == clipIndexAtCall'
            IN  Call(clipIndex, runAll', setOk) =>
               IF clipIndex >= NUMBER_OF_FILES
               THEN /\ ctxClipIndex' = ctxClipIndex
                    /\ initialClipIdx' = ctxClipIndex
                    /\ failedAt' # "setidx"
               ELSE IF setOk
               THEN /\ ctxClipIndex' = clipIndex
                    /\ initialClipIdx' = clipIndex
                    /\ failedAt' # "setidx"
               ELSE /\ ctxClipIndex' = ctxClipIndex
                    /\ failedAt' = "setidx"]_vars

\* A call with clipIndex = NUMBER_OF_FILES that processed the clip ctx
\* clipIndex named, clip 1, and returned true.
C16_Witness ==
    /\ pc = "done"
    /\ ret
    /\ clipIndexAtCall = NUMBER_OF_FILES
    /\ processed = <<1>>
    /\ presented[1] # <<>>

\* A call whose index could not be set, after an earlier call stored results.
C16_SetFailsWitness ==
    /\ failedAt = "setidx"
    /\ resultsAtCall # <<>>
    /\ clipIndexAtCall # ctxClipIndex

\* C17: ctx "results" is what it was when the call was made until a clip of
\* the call completes, and from then on the complete result sequence of the
\* clip completed last, never a part of one. When a window of a clip fails
\* after earlier clips of the call completed, the call returns false with
\* ctx "results" the sequence of the clip completed last and ctx clipIndex
\* the index of the failing clip.
C17_ResultsComplete ==
    /\ stored = <<>> => ctxResults = resultsAtCall
    /\ stored # <<>> =>
          /\ ctxResults = ExpectedResults(Last(stored))
          /\ Len(ctxResults) =
                NumWindows(clipSize[Last(stored)], cfg.windowSize, cfg.stride)
    /\ (pc = "done" /\ failedAt \in WindowFailures) =>
          /\ ~ret
          /\ ctxClipIndex = Last(processed)
          /\ stored = SubSeq(processed, 1, Len(processed) - 1)
          /\ stored # <<>> =>
                /\ runAll
                /\ ctxClipIndex # initialClipIdx
                /\ ctxClipIndex # Last(stored)

\* The second clip of a run over all clips failed in its second window: ctx
\* "results" is the first clip's sequence, not what the call started with
\* and not the window the failing clip had finished.
C17_Witness ==
    /\ pc = "done"
    /\ failedAt = "infer"
    /\ Len(stored) = 1
    /\ Len(finalResults) = 1
    /\ ctxResults # <<>>
    /\ ctxResults # resultsAtCall
    /\ ctxResults # finalResults
    /\ ctxClipIndex = 1

\* The StartProfiling / StopProfiling calls of the current clip, in order.
ProfilerCalls == SelectSeq(log, LAMBDA e : e.stage \in {"start", "stop"})

\* C18: profiling brackets exactly the RunInference call: the start and
\* stop calls alternate, starting with a start; between a start and its
\* stop lies the inference alone; PostProcess of a window begins after the
\* stop; and the profiler is not running when the handler has returned,
\* whatever the return path.
C18_ProfilerBracket ==
    /\ \A i \in DOMAIN ProfilerCalls :
          ProfilerCalls[i].stage = IF i % 2 = 1 THEN "start" ELSE "stop"
    /\ \A i \in DOMAIN log :
          /\ log[i].stage = "start" =>
                (i < Len(log) /\ log[i + 1].stage = "infer")
          /\ log[i].stage = "stop" => (i > 1 /\ log[i - 1].stage = "infer")
          /\ log[i].stage = "post" => (i > 1 /\ log[i - 1].stage = "stop")
    /\ pc \in {"post", "append"} => ~profiling
    /\ pc = "done" => ~profiling

\* The handler has returned false from a failed inference of the second
\* window with the profiler started and not stopped.
C18_Witness ==
    /\ pc = "done"
    /\ ~ret
    /\ failedAt = "infer"
    /\ profiling
    /\ Last(log).stage = "infer"
    /\ Len(ProfilerCalls) = 3
    /\ Last(ProfilerCalls).stage = "start"

=============================================================================
